---------------------------- MODULE Spec2Model ----------------------------
(***************************************************************************)
(* Model of the annealing backend (src/backend): the hand-written knapsack *)
(* QUBO builder, the decoders and feasibility checkers, the energy         *)
(* histogram and the two request handlers.                                 *)
(*                                                                         *)
(* Numbers: weights, capacities and counts are Python ints; values,        *)
(* penalties, costs and energies are Python floats that the model draws    *)
(* from the integers, on which float(), +, * and == are exact.             *)
(* Variable indices are 0-based as in the code; sequences are 1-based, so  *)
(* weights[i] of the code is weights[i + 1] here.                          *)
(***************************************************************************)
EXTENDS Integers, Sequences, FiniteSets, TLC

VARIABLES
    pc,         \* position of the call that the specification follows
    weights,    \* knapsack: list[int]
    values,     \* knapsack: list[float]
    capacity,   \* knapsack: int
    penalty,    \* knapsack: float
    Q,          \* the QUBO dict {(i, j): coefficient}
    big_capacity, \* knapsack: a capacity of any size, as its binary digits
    m_slack,    \* build_knapsack_qubo: number of slack bits
    a,          \* build_knapsack_qubo: the coefficient list a[u], as binary digits
    costs,      \* assignment: list[list[float]]
    sample,     \* a sample: dict {variable index: bit}
    decoded,    \* what decode_*_solution returned
    checked,    \* what check_*_constraints returned
    sampleset,  \* the records of a SampleSet: energy and num_occurrences
    bins,       \* what build_energy_histogram returned
    problem,    \* the endpoint called: "knapsack" or "assignment"
    solver_name, \* req.solver
    credentials, \* whether the D-Wave environment variables are all set
    solver,     \* the solver object get_solver returned
    solve_calls, \* number of calls of solver.solve
    response,   \* the response body returned
    error,      \* the exception that left the handler or the solve call
    self_sample_config, \* solver: self.sample_config
    sample_config, \* solver.solve: the caller's sample_config argument
    cfg,        \* solver.solve: the merged configuration
    use_greedy, \* solver: self.use_greedy
    bqm,        \* QASolver: the logical BinaryQuadraticModel
    embedding,  \* QASolver: what _find_embedding returned
    embedded_bqm, \* QASolver: what _embed_bqm returned
    sampler_calls \* the keyword arguments of each call of the sampler in this solve

knapsackInputs == <<weights, values, capacity, penalty>>
slackVars == <<big_capacity, m_slack, a>>
decodeVars == <<costs, sample, decoded, checked>>
histVars == <<sampleset, bins>>
requestVars == <<problem, solver_name, credentials, solver, solve_calls, response, error>>

solverVars == <<self_sample_config, sample_config, cfg, use_greedy, bqm, embedding,
                embedded_bqm, sampler_calls>>

vars == <<pc, knapsackInputs, Q, slackVars, decodeVars, histVars, requestVars, solverVars>>

(***************************************************************************)
(* Bounds of the model and constants of the program.                       *)
(***************************************************************************)
MaxItems == 2
MaxWeight == 2
MaxValue == 1
MaxCapacity == 3
\* SpecDecode: cost matrices of at most MaxCells cells with entries 0..MaxCost
MaxCells == 4
MaxCost == 1
\* SpecHistogram: at most MaxSamples records, energies -MaxEnergy..MaxEnergy,
\* num_occurrences 1..MaxOccurrences
MaxSamples == 3
MaxEnergy == 1
MaxOccurrences == 2
\* SpecSlack: capacities 0..MaxSmallCapacity and 2^e - 1, 2^e for e <= MaxExp
MaxSmallCapacity == 9
MaxExp == 54
\* SpecSolver: at most MaxCalls solve calls, configuration values 1..MaxConfigValue
MaxCalls == 2
MaxConfigValue == 2

\* build_knapsack_qubo(..., penalty: float = 1.0)
DefaultPenalty == 1
\* KnapsackRequest.penalty: float = 5.0
RequestPenalty == 5

None == "None"
EmptyDict == <<>>

\* No request is being handled (the specifications of single functions).
NoRequest ==
    /\ problem = None /\ solver_name = None /\ credentials = None
    /\ solver = None /\ solve_calls = 0 /\ response = None /\ error = None

\* The internals of a solver are not in view.
NoSolverInternals ==
    /\ self_sample_config = None /\ sample_config = None /\ cfg = None
    /\ use_greedy = None /\ bqm = None /\ embedding = None
    /\ embedded_bqm = None /\ sampler_calls = None

(***************************************************************************)
(* Generic helpers.                                                        *)
(***************************************************************************)
RECURSIVE Pow2(_)
Pow2(k) == IF k = 0 THEN 1 ELSE 2 * Pow2(k - 1)

\* sum(f[x] for x in DOMAIN f)
RECURSIVE SumFn(_)
SumFn(f) ==
    IF DOMAIN f = {} THEN 0
    ELSE LET x == CHOOSE y \in DOMAIN f : TRUE
         IN  f[x] + SumFn([y \in DOMAIN f \ {x} |-> f[y]])

\* Lists of length 0..n over S.
SeqsUpTo(S, n) == UNION {[1..k -> S] : k \in 0..n}

(***************************************************************************)
(* knapsack.py: build_knapsack_qubo                                        *)
(***************************************************************************)

(***************************************************************************)
(* Python ints of any size, as lists of binary digits, least significant   *)
(* first and without leading zeros (0 is the empty list), and the float    *)
(* (IEEE binary64) that math.log2 converts its argument to.                *)
(***************************************************************************)
RECURSIVE ToBits(_)
ToBits(n) == IF n = 0 THEN <<>> ELSE <<n % 2>> \o ToBits(n \div 2)

RECURSIVE ToInt(_)
ToInt(b) == IF b = <<>> THEN 0 ELSE b[1] + 2 * ToInt(Tail(b))

\* 2**e
Pow2Bits(e) == [i \in 1..(e + 1) |-> IF i = e + 1 THEN 1 ELSE 0]

\* b + 1
RECURSIVE IncBits(_)
IncBits(b) ==
    IF b = <<>> THEN <<1>>
    ELSE IF b[1] = 0 THEN <<1>> \o Tail(b)
    ELSE <<0>> \o IncBits(Tail(b))

\* Drop leading (most significant) zeros.
RECURSIVE Normalize(_)
Normalize(b) ==
    IF b = <<>> THEN <<>>
    ELSE IF b[Len(b)] = 0 THEN Normalize(SubSeq(b, 1, Len(b) - 1))
    ELSE b

\* b - 1, for b > 0
RECURSIVE DecRaw(_)
DecRaw(b) == IF b[1] = 1 THEN <<0>> \o Tail(b) ELSE <<1>> \o DecRaw(Tail(b))

DecBits(b) == Normalize(DecRaw(b))

\* x < y
RECURSIVE LessBits(_, _)
LessBits(x, y) ==
    IF Len(x) # Len(y) THEN Len(x) < Len(y)
    ELSE IF x = <<>> THEN FALSE
    ELSE IF x[Len(x)] # y[Len(y)] THEN x[Len(x)] < y[Len(y)]
    ELSE LessBits(Normalize(SubSeq(x, 1, Len(x) - 1)),
                  Normalize(SubSeq(y, 1, Len(y) - 1)))

\* Significand width of a Python float.
MantissaBits == 53

\* float(x) for an int x > 0: the nearest float, ties to even; exact below 2^53.
ToDouble(b) ==
    IF Len(b) <= MantissaBits THEN b
    ELSE LET sh      == Len(b) - MantissaBits
             kept    == SubSeq(b, sh + 1, Len(b))
             dropped == SubSeq(b, 1, sh)
             above   == \E i \in 1..(sh - 1) : dropped[i] = 1
             up      == dropped[sh] = 1 /\ (above \/ kept[1] = 1)
         IN  [i \in 1..sh |-> 0] \o (IF up THEN IncBits(kept) ELSE kept)

IsPow2(b) == b # <<>> /\ \A i \in 1..(Len(b) - 1) : b[i] = 0

\* floor(log2(k)) for k >= 1
RECURSIVE FloorLog2(_)
FloorLog2(k) == IF k <= 1 THEN 0 ELSE 1 + FloorLog2(k \div 2)

\* floor(ln(2) * 2^16)
Ln2Q16 == 45426

\* math.log2(d) of a float d = 2^k + r, 0 < r < 2^k, returns exactly k.0 when
\* log2(1 + r/2^k) is at most half the spacing 2^(floor(log2 k) - 52) of the
\* floats around k, that is when r * 2^53 <= ln(2) * 2^(k + floor(log2 k)).
\* (d < 2^62, so that the comparison stays within the integers.)
Log2RoundsDown(d) ==
    LET k == Len(d) - 1
        r == Normalize(SubSeq(d, 1, k))
        e == k + FloorLog2(k) - MantissaBits
    IN  /\ k > 0
        /\ e >= 0
        /\ Len(r) <= e
        /\ ToInt(r) * Pow2(16) <= Ln2Q16 * Pow2(e)

\* math.ceil(math.log2(x)) for an int x >= 1
CeilLog2(x) ==
    LET d == ToDouble(x)
    IN  IF IsPow2(d) \/ Log2RoundsDown(d) THEN Len(d) - 1 ELSE Len(d)

\* The slack sizing with floor instead of ceil.
m_slack_bits_Floor(cap) == Len(ToDouble(IncBits(cap))) - 1

\* m_slack = math.ceil(math.log2(capacity + 1))
m_slack_bits(cap) == CeilLog2(IncBits(cap))

m_slack_of(cap) == m_slack_bits(ToBits(cap))

\* add_Q without the swap of i > j.
add_Q_NoSwap(Qd, i, j, value) ==
    LET key == <<i, j>>
    IN  IF key \in DOMAIN Qd
        THEN [Qd EXCEPT ![key] = @ + value]
        ELSE [k \in DOMAIN Qd \cup {key} |-> IF k = key THEN value ELSE Qd[k]]

\* add_Q: canonicalise the key to i <= j, then accumulate.
add_Q(Qd, i, j, value) ==
    LET key == IF i > j THEN <<j, i>> ELSE <<i, j>>
    IN  IF key \in DOMAIN Qd
        THEN [Qd EXCEPT ![key] = @ + value]
        ELSE [k \in DOMAIN Qd \cup {key} |-> IF k = key THEN value ELSE Qd[k]]

\* for i, v in enumerate(values): add_Q(i, i, -float(v))
RECURSIVE ObjectiveLoop(_, _, _)
ObjectiveLoop(Qd, vals, i) ==
    IF i >= Len(vals) THEN Qd
    ELSE ObjectiveLoop(add_Q(Qd, i, i, -vals[i + 1]), vals, i + 1)

\* a[u]: the weight of item u, then 2^k for slack bit k at index n_items + k.
Coefficients(ws, m) ==
    [u \in 0..(Len(ws) + m - 1) |->
        IF u < Len(ws) THEN ws[u + 1] ELSE Pow2(u - Len(ws))]

\* The diagonal coefficient without the factor 2 of the cross term.
DiagCoeff_NoDouble(P, au, cap) == P * (au * au - cap * au)

\* coeff = penalty * (au * au - 2.0 * capacity * au)
DiagCoeff(P, au, cap) == P * (au * au - 2 * cap * au)

\* for u in range(n_items + m_slack): add_Q(u, u, coeff)
RECURSIVE DiagonalLoop(_, _, _, _, _)
DiagonalLoop(Qd, coef, P, cap, u) ==
    IF u \notin DOMAIN coef THEN Qd
    ELSE DiagonalLoop(add_Q(Qd, u, u, DiagCoeff(P, coef[u], cap)), coef, P, cap, u + 1)

\* The cross term without its factor 2.
OffDiagCoeff_NoDouble(P, au, av) == P * au * av

\* coeff = 2.0 * penalty * a[u] * a[v]
OffDiagCoeff(P, au, av) == 2 * P * au * av

\* for u in range(nv): for v in range(u + 1, nv): add_Q(u, v, coeff)
RECURSIVE OffDiagonalLoop(_, _, _, _, _)
OffDiagonalLoop(Qd, coef, P, u, v) ==
    IF u \notin DOMAIN coef THEN Qd
    ELSE IF v \notin DOMAIN coef THEN OffDiagonalLoop(Qd, coef, P, u + 1, u + 2)
    ELSE OffDiagonalLoop(add_Q(Qd, u, v, OffDiagCoeff(P, coef[u], coef[v])), coef, P, u, v + 1)

\* The two checks that raise ValueError before anything is built.
KnapsackInputInvalid(ws, vals, cap) == Len(ws) # Len(vals) \/ cap <= 0

build_knapsack_qubo(ws, vals, cap, P) ==
    LET coef  == Coefficients(ws, m_slack_of(cap))
        Q1 == ObjectiveLoop(EmptyDict, vals, 0)
        Q2 == DiagonalLoop(Q1, coef, P, cap, 0)
    IN  OffDiagonalLoop(Q2, coef, P, 0, 1)

(***************************************************************************)
(* SpecQubo: one call of build_knapsack_qubo on drawn inputs.              *)
(***************************************************************************)
\* weights=[2,3,4], values=[3,4,5], capacity=5 (the documented example).
ExampleKnapsack == [weights |-> <<2, 3, 4>>, values |-> <<3, 4, 5>>, capacity |-> 5]
ExampleWeights == ExampleKnapsack.weights
ExampleValues == ExampleKnapsack.values
ExampleCapacity == ExampleKnapsack.capacity

Penalties == {DefaultPenalty, RequestPenalty}

InitQubo ==
    /\ NoRequest
    /\ NoSolverInternals
    /\ pc = "call"
    /\ \/ /\ weights \in SeqsUpTo(0..MaxWeight, MaxItems)
          /\ values \in SeqsUpTo(0..MaxValue, MaxItems)
          /\ capacity \in (-1)..MaxCapacity
       \/ /\ weights = ExampleWeights
          /\ values = ExampleValues
          /\ capacity = ExampleCapacity
    /\ penalty \in Penalties
    /\ Q = None
    /\ big_capacity = None /\ m_slack = None /\ a = None
    /\ costs = None /\ sample = None /\ decoded = None /\ checked = None
    /\ sampleset = None /\ bins = None

BuildRaises ==
    /\ pc = "call"
    /\ KnapsackInputInvalid(weights, values, capacity)
    /\ pc' = "ValueError"
    /\ UNCHANGED <<knapsackInputs, Q, slackVars, decodeVars, histVars, requestVars, solverVars>>

BuildReturns ==
    /\ pc = "call"
    /\ ~KnapsackInputInvalid(weights, values, capacity)
    /\ Q' = build_knapsack_qubo(weights, values, capacity, penalty)
    /\ pc' = "returned"
    /\ UNCHANGED <<knapsackInputs, slackVars, decodeVars, histVars, requestVars, solverVars>>

NextQubo == BuildRaises \/ BuildReturns

SpecQubo == InitQubo /\ [][NextQubo]_vars

(***************************************************************************)
(* Reading a QUBO: its variables, its 0/1 assignments and their energy.    *)
(***************************************************************************)
\* All 0/1 assignments over the variable indices 0..nv-1.
Assignments(nv) == [0..(nv - 1) -> {0, 1}]

\* sum of Q[(u, v)] * z_u * z_v over the keys of Q
Energy(Qd, z) == SumFn([k \in DOMAIN Qd |-> Qd[k] * z[k[1]] * z[k[2]]])

\* Number of variables the call lays out: n_items + m_slack.
NumVars == Len(weights) + m_slack_of(capacity)

\* sum_i weights[i] * x_i over the item bits of z
SelectedWeight(ws, z) == SumFn([i \in 0..(Len(ws) - 1) |-> ws[i + 1] * z[i]])

\* sum_i values[i] * x_i over the item bits of z
SelectedValue(vals, z) == SumFn([i \in 0..(Len(vals) - 1) |-> vals[i + 1] * z[i]])

\* sum_k 2^k * y_k over the slack bits of z, which start at index n
SlackValue(n, m, z) == SumFn([k \in 0..(m - 1) |-> Pow2(k) * z[n + k]])

\* H(x, y) = -sum_i v_i x_i + P * (sum_i w_i x_i + sum_k 2^k y_k - C)^2
Hamiltonian(ws, vals, cap, P, m, z) ==
    LET d == SelectedWeight(ws, z) + SlackValue(Len(ws), m, z) - cap
    IN  -SelectedValue(vals, z) + P * d * d

(***************************************************************************)
(* C1: the energy of the QUBO returned by build_knapsack_qubo equals, for  *)
(* every 0/1 assignment of the item and slack variables, the Hamiltonian   *)
(* -sum v_i x_i + P*(sum w_i x_i + sum 2^k y_k - capacity)^2 minus the     *)
(* dropped constant P*capacity^2.                                          *)
(***************************************************************************)
C1_EnergyIsHamiltonianMinusConstant ==
    pc = "returned" =>
        \A z \in Assignments(NumVars) :
            Energy(Q, z) =
                Hamiltonian(weights, values, capacity, penalty,
                            NumVars - Len(weights), z)
                - penalty * capacity * capacity

\* The example instance is built and its selection {0, 1} with no slack has
\* energy -7 + 0 - 25.
C1_Witness ==
    /\ pc = "returned"
    /\ weights = ExampleWeights
    /\ penalty = DefaultPenalty
    /\ Energy(Q, [u \in 0..5 |-> IF u \in {0, 1} THEN 1 ELSE 0]) = -32

BigCapacities ==
    {ToBits(c) : c \in 0..MaxSmallCapacity}
        \cup {Pow2Bits(e) : e \in 1..MaxExp}
        \cup {DecBits(Pow2Bits(e)) : e \in 1..MaxExp}

InitSlack ==
    /\ NoRequest
    /\ NoSolverInternals
    /\ pc = "call"
    /\ weights \in SeqsUpTo(0..MaxWeight, MaxItems)
    /\ values = [i \in DOMAIN weights |-> 0]
    /\ big_capacity \in BigCapacities
    /\ capacity = None /\ penalty = None /\ Q = None
    /\ m_slack = None /\ a = None
    /\ costs = None /\ sample = None /\ decoded = None /\ checked = None
    /\ sampleset = None /\ bins = None

\* if capacity <= 0: raise ValueError
SlackRaises ==
    /\ pc = "call"
    /\ big_capacity = <<>>
    /\ pc' = "ValueError"
    /\ UNCHANGED <<knapsackInputs, Q, slackVars, decodeVars, histVars, requestVars, solverVars>>

\* a[i] = float(w) for the items, a[n_items + k] = float(2**k) for the slack bits
CoefficientBits(ws, m) ==
    [u \in 0..(Len(ws) + m - 1) |->
        IF u < Len(ws) THEN ToBits(ws[u + 1]) ELSE Pow2Bits(u - Len(ws))]

SizeSlack ==
    /\ pc = "call"
    /\ big_capacity # <<>>
    /\ m_slack' = m_slack_bits(big_capacity)
    /\ a' = CoefficientBits(weights, m_slack')
    /\ pc' = "sized"
    /\ UNCHANGED <<knapsackInputs, Q, big_capacity, decodeVars, histVars, requestVars, solverVars>>

NextSlack == SlackRaises \/ SizeSlack

SpecSlack == InitSlack /\ [][NextSlack]_vars

\* The least m with 2^m - 1 >= cap.
SmallestM(cap) ==
    CHOOSE m \in 0..(Len(cap) + 1) :
        /\ ~LessBits(DecBits(Pow2Bits(m)), cap)
        /\ \A j \in 0..(m - 1) : LessBits(DecBits(Pow2Bits(j)), cap)

(***************************************************************************)
(* C3: for every capacity >= 1 the number of slack bits is                 *)
(* ceil(log2(capacity + 1)), the smallest m with 2^m - 1 >= capacity       *)
(* (3 for capacity 7, 4 for capacity 8), and slack bit k has coefficient   *)
(* 2^k at variable index n_items + k.                                      *)
(***************************************************************************)
C3_SlackBitCount ==
    pc = "sized" =>
        /\ m_slack = SmallestM(big_capacity)
        /\ big_capacity = ToBits(7) => m_slack = 3
        /\ big_capacity = ToBits(8) => m_slack = 4
        /\ \A k \in 0..(m_slack - 1) : a[Len(weights) + k] = Pow2Bits(k)

\* C3 restricted to the capacities below 2^49.
C3_SlackBitCountBelow2p49 == Len(big_capacity) <= 49 => C3_SlackBitCount

\* b - w for a small int w <= b
RECURSIVE SubSmall(_, _)
SubSmall(b, w) == IF w = 0 THEN b ELSE SubSmall(DecBits(b), w - 1)

\* Whether some slack setting y over m bits has W + sum_k 2^k y_k = cap:
\* by enumeration of the settings for small m; for any m, y has to be the
\* binary expansion of cap - W, which is a setting iff it has at most m digits.
SlackSettingExists(W, cap, m) ==
    IF m <= 4
    THEN \E y \in Assignments(m) : ToBits(W + SlackValue(0, m, y)) = cap
    ELSE /\ ~LessBits(cap, ToBits(W))
         /\ Len(SubSmall(cap, W)) <= m

(***************************************************************************)
(* C4: for every item selection x there is a setting of the m_slack slack  *)
(* bits with sum_i w_i x_i + sum_k 2^k y_k = capacity if and only if       *)
(* sum_i w_i x_i <= capacity.                                              *)
(***************************************************************************)
C4_SlackEqualityIffFeasible ==
    pc = "sized" =>
        \A x \in Assignments(Len(weights)) :
            LET W == SelectedWeight(weights, x)
            IN  SlackSettingExists(W, big_capacity, m_slack)
                    <=> ~LessBits(big_capacity, ToBits(W))

\* C4 restricted to the capacities below 2^49.
C4_SlackEqualityBelow2p49 == Len(big_capacity) <= 49 => C4_SlackEqualityIffFeasible


(***************************************************************************)
(* decoders.py                                                             *)
(***************************************************************************)
\* sample.get(u, 1): a missing key read as a set bit.
Get_MissingIsOne(smp, u) == IF u \in DOMAIN smp THEN smp[u] ELSE 1

\* sample.get(u, 0)
Get(smp, u) == IF u \in DOMAIN smp THEN smp[u] ELSE 0

RECURSIVE SumSeq(_)
SumSeq(sq) == IF sq = <<>> THEN 0 ELSE Head(sq) + SumSeq(Tail(sq))

\* [i for i in range(n_items) if sample.get(i, 0) == 1], from index i on
RECURSIVE ChosenItemsFrom(_, _, _)
ChosenItemsFrom(smp, n_items, i) ==
    IF i >= n_items THEN <<>>
    ELSE (IF Get(smp, i) = 1 THEN <<i>> ELSE <<>>)
             \o ChosenItemsFrom(smp, n_items, i + 1)

\* n_items = len(values) instead of len(weights)
decode_knapsack_solution_LenValues(smp, ws, vals) ==
    LET chosen_items == ChosenItemsFrom(smp, Len(vals), 0)
    IN  [chosen_items |-> chosen_items,
         total_weight |-> SumSeq([p \in DOMAIN chosen_items |-> ws[chosen_items[p] + 1]]),
         total_value  |-> SumSeq([p \in DOMAIN chosen_items |-> vals[chosen_items[p] + 1]])]

decode_knapsack_solution(smp, ws, vals) ==
    LET chosen_items == ChosenItemsFrom(smp, Len(ws), 0)
    IN  [chosen_items |-> chosen_items,
         total_weight |-> SumSeq([p \in DOMAIN chosen_items |-> ws[chosen_items[p] + 1]]),
         total_value  |-> SumSeq([p \in DOMAIN chosen_items |-> vals[chosen_items[p] + 1]])]

\* feasible = total_weight < capacity
check_knapsack_constraints_Strict(smp, ws, cap) ==
    LET chosen == ChosenItemsFrom(smp, Len(ws), 0)
        total_weight == SumSeq([p \in DOMAIN chosen |-> ws[chosen[p] + 1]])
    IN  [feasible |-> total_weight < cap, total_weight |-> total_weight]

check_knapsack_constraints(smp, ws, cap) ==
    LET chosen == ChosenItemsFrom(smp, Len(ws), 0)
        total_weight == SumSeq([p \in DOMAIN chosen |-> ws[chosen[p] + 1]])
    IN  [feasible |-> total_weight <= cap, total_weight |-> total_weight]

\* return i * n_workers + j
var_index_ByWorkers(i, j, n_workers, n_jobs) == i * n_workers + j

\* def var_index(i, j): return i * n_jobs + j
var_index(i, j, n_workers, n_jobs) == i * n_jobs + j

\* for i in range(n_workers): for j in range(n_jobs): if bit: append((i, j))
RECURSIVE AssignmentPairsFrom(_, _, _, _, _)
AssignmentPairsFrom(smp, n_workers, n_jobs, i, j) ==
    IF i >= n_workers THEN <<>>
    ELSE IF j >= n_jobs THEN AssignmentPairsFrom(smp, n_workers, n_jobs, i + 1, 0)
    ELSE (IF Get(smp, var_index(i, j, n_workers, n_jobs)) = 1 THEN <<(<<i, j>>)>> ELSE <<>>)
             \o AssignmentPairsFrom(smp, n_workers, n_jobs, i, j + 1)

decode_assignment_solution(smp, cs) ==
    LET n_workers == Len(cs)
        n_jobs == Len(cs[1])
        assignments == AssignmentPairsFrom(smp, n_workers, n_jobs, 0, 0)
    IN  [assignments |-> assignments,
         total_cost |->
            SumSeq([p \in DOMAIN assignments |->
                        cs[assignments[p][1] + 1][assignments[p][2] + 1]])]

\* worker_counts[i] += 1 (rows = TRUE) or job_counts[j] += 1 over the set bits
RECURSIVE CountsFrom(_, _, _, _, _, _, _)
CountsFrom(smp, n_workers, n_jobs, i, j, counts, rows) ==
    IF i >= n_workers THEN counts
    ELSE IF j >= n_jobs THEN CountsFrom(smp, n_workers, n_jobs, i + 1, 0, counts, rows)
    ELSE LET slot == IF rows THEN i + 1 ELSE j + 1
             next == IF Get(smp, var_index(i, j, n_workers, n_jobs)) = 1
                     THEN [counts EXCEPT ![slot] = @ + 1]
                     ELSE counts
         IN  CountsFrom(smp, n_workers, n_jobs, i, j + 1, next, rows)

\* feasible = all(c == 1 for c in worker_counts), the jobs left out
AllCountsOne_WorkersOnly(worker_counts, job_counts) ==
    \A p \in DOMAIN worker_counts : worker_counts[p] = 1

\* all(c == 1 for c in worker_counts) and all(c == 1 for c in job_counts)
AllCountsOne(worker_counts, job_counts) ==
    /\ \A p \in DOMAIN worker_counts : worker_counts[p] = 1
    /\ \A p \in DOMAIN job_counts : job_counts[p] = 1

check_assignment_constraints(smp, cs) ==
    LET n_workers == Len(cs)
        n_jobs == Len(cs[1])
        worker_counts == CountsFrom(smp, n_workers, n_jobs, 0, 0,
                                    [p \in 1..n_workers |-> 0], TRUE)
        job_counts == CountsFrom(smp, n_workers, n_jobs, 0, 0,
                                 [p \in 1..n_jobs |-> 0], FALSE)
    IN  [feasible |-> AllCountsOne(worker_counts, job_counts),
         worker_counts |-> worker_counts,
         job_counts |-> job_counts]


(***************************************************************************)
(* Minimum-energy assignments of the built QUBO and the best feasible      *)
(* selection of the instance.                                              *)
(***************************************************************************)
Minimisers ==
    LET A == Assignments(NumVars)
        energies == {Energy(Q, z) : z \in A}
        lowest == CHOOSE e \in energies : \A e2 \in energies : e <= e2
    IN  {z \in A : Energy(Q, z) = lowest}

\* The largest total value of a selection within the capacity.
BestFeasibleValue ==
    LET F == {x \in Assignments(Len(weights)) : SelectedWeight(weights, x) <= capacity}
    IN  CHOOSE v \in {SelectedValue(values, x) : x \in F} :
            \A x \in F : SelectedValue(values, x) <= v

IsExample ==
    weights = ExampleWeights /\ values = ExampleValues /\ capacity = ExampleCapacity

\* Sample z decodes to a feasible selection of the best feasible value.
DecodesToBestFeasible(z) ==
    /\ check_knapsack_constraints(z, weights, capacity).feasible
    /\ decode_knapsack_solution(z, weights, values).total_value = BestFeasibleValue

\* Sample z decodes to items [0, 1], weight 5, value 7, reported feasible.
DecodesToExampleOptimum(z) ==
    /\ decode_knapsack_solution(z, weights, values) =
          [chosen_items |-> <<0, 1>>, total_weight |-> 5, total_value |-> 7]
    /\ check_knapsack_constraints(z, weights, capacity) =
          [feasible |-> TRUE, total_weight |-> 5]

(***************************************************************************)
(* C6 as stated: with the default penalty of build_knapsack_qubo, every    *)
(* minimum-energy assignment of every instance decodes to the best         *)
(* feasible selection and is reported feasible; for the example to items   *)
(* [0, 1], weight 5, value 7, feasible.                                    *)
(***************************************************************************)
C6_DefaultPenaltyMinimisersAreBest ==
    (pc = "returned" /\ penalty = DefaultPenalty) =>
        \A z \in Minimisers :
            /\ DecodesToBestFeasible(z)
            /\ IsExample => DecodesToExampleOptimum(z)

(***************************************************************************)
(* C6 amended: every minimum-energy assignment decodes to a feasible       *)
(* selection of the best feasible value whenever the penalty exceeds the   *)
(* sum of the values; for the example with penalty 5.0 (the default of     *)
(* KnapsackRequest) it decodes to items [0, 1], weight 5, value 7 and is   *)
(* reported feasible with total weight 5.                                  *)
(***************************************************************************)
C6_LargePenaltyMinimisersAreBest ==
    pc = "returned" =>
        /\ penalty > SumSeq(values) => \A z \in Minimisers : DecodesToBestFeasible(z)
        /\ (IsExample /\ penalty = RequestPenalty) =>
               \A z \in Minimisers : DecodesToExampleOptimum(z)

\* The example is built with penalty 5 and its minimisers select items 0 and 1;
\* with penalty 1 the selection {0, 2} of weight 6 is a minimiser too.
C6_Witness ==
    /\ pc = "returned"
    /\ IsExample
    /\ penalty = RequestPenalty
    /\ \E z \in Minimisers : z[0] = 1 /\ z[1] = 1 /\ z[2] = 0


(***************************************************************************)
(* SpecDecode: the post-processing of one best sample, in the order of     *)
(* main.py: decode_*_solution, then check_*_constraints.                   *)
(***************************************************************************)
\* costs = [[4, 1], [2, 3]] (the documented example)
ExampleCosts == <<(<<4, 1>>), (<<2, 3>>)>>

\* Rectangular cost matrices: n_workers rows of n_jobs entries each.
CostMatrices ==
    UNION {UNION {[1..nw -> [1..nj -> 0..MaxCost]] : nj \in 1..(MaxCells \div nw)} :
              nw \in 1..MaxCells}

\* Sample dicts over the keys K: any key may be missing.
Samples(K) == UNION {[D -> {0, 1}] : D \in SUBSET K}

InitDecode ==
    /\ NoRequest
    /\ NoSolverInternals
    /\ \/ /\ pc = "knapsack"
          /\ weights \in SeqsUpTo(0..MaxWeight, MaxItems)
          /\ values \in [DOMAIN weights -> 0..MaxValue]
          /\ capacity \in 0..MaxCapacity
          \* the decoders and checkers take no penalty argument
          /\ penalty = None
          /\ costs = None
          \* the item keys and the key of the first slack bit
          /\ sample \in Samples(0..Len(weights))
       \/ /\ pc = "assignment"
          /\ costs \in CostMatrices \cup {ExampleCosts}
          /\ sample \in Samples(0..(Len(costs) * Len(costs[1]) - 1))
          /\ weights = None /\ values = None /\ capacity = None /\ penalty = None
    /\ decoded = None /\ checked = None
    /\ Q = None /\ big_capacity = None /\ m_slack = None /\ a = None
    /\ sampleset = None /\ bins = None

DecodeKnapsack ==
    /\ pc = "knapsack"
    /\ decoded' = decode_knapsack_solution(sample, weights, values)
    /\ pc' = "knapsack_decoded"
    /\ UNCHANGED <<knapsackInputs, Q, slackVars, costs, sample, checked, histVars, requestVars, solverVars>>

CheckKnapsack ==
    /\ pc = "knapsack_decoded"
    /\ checked' = check_knapsack_constraints(sample, weights, capacity)
    /\ pc' = "knapsack_checked"
    /\ UNCHANGED <<knapsackInputs, Q, slackVars, costs, sample, decoded, histVars, requestVars, solverVars>>

DecodeAssignment ==
    /\ pc = "assignment"
    /\ decoded' = decode_assignment_solution(sample, costs)
    /\ pc' = "assignment_decoded"
    /\ UNCHANGED <<knapsackInputs, Q, slackVars, costs, sample, checked, histVars, requestVars, solverVars>>

CheckAssignment ==
    /\ pc = "assignment_decoded"
    /\ checked' = check_assignment_constraints(sample, costs)
    /\ pc' = "assignment_checked"
    /\ UNCHANGED <<knapsackInputs, Q, slackVars, costs, sample, decoded, histVars, requestVars, solverVars>>

NextDecode == DecodeKnapsack \/ CheckKnapsack \/ DecodeAssignment \/ CheckAssignment

SpecDecode == InitDecode /\ [][NextDecode]_vars

\* The sample without the keys K.
Without(smp, K) == [u \in DOMAIN smp \ K |-> smp[u]]

\* The keys the sample holds with bit 0.
ZeroKeys(smp) == {u \in DOMAIN smp : smp[u] = 0}

\* The sample with its keys from n on replaced by those of the sample slack.
WithSlackKeys(smp, n, slack) ==
    [u \in {i \in DOMAIN smp : i < n} \cup DOMAIN slack |->
        IF u < n THEN smp[u] ELSE slack[u]]

(***************************************************************************)
(* C7: the two decoders and the two checkers return the same result when   *)
(* keys whose bit is 0 are removed from the sample, and the knapsack       *)
(* decoder and checker return the same result whatever the slack-bit keys  *)
(* (indices >= n_items) hold, present or not; a missing key is read as 0.  *)
(***************************************************************************)
C7_MissingKeysAreZero ==
    /\ pc = "knapsack_checked" =>
          /\ \A K \in SUBSET ZeroKeys(sample) :
                /\ decode_knapsack_solution(Without(sample, K), weights, values) = decoded
                /\ check_knapsack_constraints(Without(sample, K), weights, capacity) = checked
          /\ \A slack \in Samples(Len(weights)..(Len(weights) + 1)) :
                LET s2 == WithSlackKeys(sample, Len(weights), slack)
                IN  /\ decode_knapsack_solution(s2, weights, values) = decoded
                    /\ check_knapsack_constraints(s2, weights, capacity) = checked
    /\ pc = "assignment_checked" =>
          \A K \in SUBSET ZeroKeys(sample) :
              /\ decode_assignment_solution(Without(sample, K), costs) = decoded
              /\ check_assignment_constraints(Without(sample, K), costs) = checked

\* A knapsack sample with an item bit held as 0, a set item bit and a set slack bit.
C7_Witness ==
    /\ pc = "knapsack_checked"
    /\ Len(weights) = 2
    /\ DOMAIN sample = {0, 1, 2}
    /\ sample[0] = 0 /\ sample[1] = 1 /\ sample[2] = 1
    /\ decoded.chosen_items = <<1>>

\* The items whose bit is 1 in the sample.
SetItems(smp, n) == {i \in 0..(n - 1) : i \in DOMAIN smp /\ smp[i] = 1}

(***************************************************************************)
(* C8: check_knapsack_constraints returns as total_weight the sum of       *)
(* weights[i] over the items with bit 1 and feasible exactly when that sum *)
(* is <= capacity, a function of the item bits, the weights and the        *)
(* capacity alone (not of the penalty or the slack bits), and its          *)
(* total_weight equals the one decode_knapsack_solution returns.           *)
(***************************************************************************)
C8_KnapsackCheckFromDomain ==
    pc = "knapsack_checked" =>
        LET W == SumFn([i \in SetItems(sample, Len(weights)) |-> weights[i + 1]])
        IN  /\ checked.total_weight = W
            /\ checked.feasible <=> (W <= capacity)
            /\ checked.total_weight = decoded.total_weight

\* A selection that fills the capacity exactly, with the slack bit set as well.
C8_Witness ==
    /\ pc = "knapsack_checked"
    /\ capacity > 0
    /\ checked.total_weight = capacity
    /\ checked.feasible
    /\ Len(weights) \in DOMAIN sample /\ sample[Len(weights)] = 1

\* The (worker, job) pairs whose variable i * n_jobs + j has bit 1.
SetPairs(smp, cs) ==
    {ij \in (0..(Len(cs) - 1)) \X (0..(Len(cs[1]) - 1)) :
        LET u == ij[1] * Len(cs[1]) + ij[2]
        IN  u \in DOMAIN smp /\ smp[u] = 1}

\* (i, j) comes before (k, l) in row-major order.
RowMajorBefore(p, q) == p[1] < q[1] \/ (p[1] = q[1] /\ p[2] < q[2])

(***************************************************************************)
(* C9: decode_assignment_solution returns exactly the (worker, job) pairs  *)
(* whose variable i*n_jobs+j has bit 1, in row-major order, with           *)
(* total_cost the sum of their costs; check_assignment_constraints returns *)
(* the per-worker and per-job counts of those pairs and feasible exactly   *)
(* when every count is 1. For costs [[4,1],[2,3]] the assignment           *)
(* worker0->job1, worker1->job0 has total cost 3 and all counts 1.         *)
(***************************************************************************)
C9_AssignmentDecodeAndCheck ==
    pc = "assignment_checked" =>
        LET S  == SetPairs(sample, costs)
            as == decoded.assignments
        IN  /\ {as[p] : p \in DOMAIN as} = S
            /\ \A p, q \in DOMAIN as : p < q => RowMajorBefore(as[p], as[q])
            /\ decoded.total_cost = SumFn([ij \in S |-> costs[ij[1] + 1][ij[2] + 1]])
            /\ checked.worker_counts =
                  [w \in 1..Len(costs) |-> Cardinality({ij \in S : ij[1] = w - 1})]
            /\ checked.job_counts =
                  [j \in 1..Len(costs[1]) |-> Cardinality({ij \in S : ij[2] = j - 1})]
            /\ checked.feasible <=>
                  /\ \A w \in 0..(Len(costs) - 1) : Cardinality({ij \in S : ij[1] = w}) = 1
                  /\ \A j \in 0..(Len(costs[1]) - 1) : Cardinality({ij \in S : ij[2] = j}) = 1
            /\ (costs = ExampleCosts /\ S = {<<0, 1>>, <<1, 0>>}) =>
                  /\ decoded = [assignments |-> <<(<<0, 1>>), (<<1, 0>>)>>, total_cost |-> 3]
                  /\ checked = [feasible |-> TRUE, worker_counts |-> <<1, 1>>,
                                job_counts |-> <<1, 1>>]

\* The example's optimal assignment has been decoded and checked.
C9_Witness ==
    /\ pc = "assignment_checked"
    /\ costs = ExampleCosts
    /\ sample = (0 :> 0 @@ 1 :> 1 @@ 2 :> 1 @@ 3 :> 0)
    /\ decoded.total_cost = 3
    /\ checked.feasible


(***************************************************************************)
(* main.py: build_energy_histogram. A dict is held as the list of its      *)
(* (key, value) items in insertion order, as Python iterates it.           *)
(***************************************************************************)
\* energy_counts[e] = c: the count replaced instead of accumulated
AccumulateCount_Overwrite(items, e, c) ==
    IF \E p \in DOMAIN items : items[p][1] = e
    THEN [p \in DOMAIN items |-> IF items[p][1] = e THEN <<e, c>> ELSE items[p]]
    ELSE Append(items, <<e, c>>)

\* energy_counts[float(e)] += int(c) on a defaultdict(int)
AccumulateCount(items, e, c) ==
    IF \E p \in DOMAIN items : items[p][1] = e
    THEN [p \in DOMAIN items |->
            IF items[p][1] = e THEN <<e, items[p][2] + c>> ELSE items[p]]
    ELSE Append(items, <<e, c>>)

\* for e, c in zip(energies, counts): energy_counts[float(e)] += int(c)
RECURSIVE CountLoop(_, _, _)
CountLoop(items, ss, i) ==
    IF i > Len(ss) THEN items
    ELSE CountLoop(AccumulateCount(items, ss[i].energy, ss[i].num_occurrences), ss, i + 1)

\* Insert item x into the list sorted by x[1], after the items with an equal key.
RECURSIVE InsertSorted(_, _)
InsertSorted(sorted, x) ==
    IF sorted = <<>> THEN <<x>>
    ELSE IF x[1] < Head(sorted)[1] THEN <<x>> \o sorted
    ELSE <<Head(sorted)>> \o InsertSorted(Tail(sorted), x)

\* sorted(items, key=lambda x: x[0]): ascending and stable
RECURSIVE SortedByKey(_)
SortedByKey(items) ==
    IF items = <<>> THEN <<>>
    ELSE InsertSorted(SortedByKey(SubSeq(items, 1, Len(items) - 1)), items[Len(items)])

build_energy_histogram(ss) ==
    LET energy_counts == CountLoop(<<>>, ss, 1)
        sorted_items  == SortedByKey(energy_counts)
        \* bins.sort(key=lambda b: b.energy) on the bins made of sorted_items
        resorted      == SortedByKey(sorted_items)
    IN  [p \in DOMAIN resorted |->
            [energy |-> resorted[p][1], count |-> resorted[p][2]]]

(***************************************************************************)
(* SpecHistogram: one call of build_energy_histogram on a drawn SampleSet. *)
(***************************************************************************)
SampleRecords ==
    [energy : (-MaxEnergy)..MaxEnergy, num_occurrences : 1..MaxOccurrences]

InitHistogram ==
    /\ NoRequest
    /\ NoSolverInternals
    /\ pc = "histogram"
    /\ sampleset \in SeqsUpTo(SampleRecords, MaxSamples)
    /\ bins = None
    /\ weights = None /\ values = None /\ capacity = None /\ penalty = None
    /\ Q = None /\ big_capacity = None /\ m_slack = None /\ a = None
    /\ costs = None /\ sample = None /\ decoded = None /\ checked = None

BuildHistogram ==
    /\ pc = "histogram"
    /\ bins' = build_energy_histogram(sampleset)
    /\ pc' = "histogram_built"
    /\ UNCHANGED <<knapsackInputs, Q, slackVars, decodeVars, sampleset, requestVars, solverVars>>

NextHistogram == BuildHistogram

SpecHistogram == InitHistogram /\ [][NextHistogram]_vars

\* The sample set listed in the order pi.
Reordered(ss, pi) == [i \in DOMAIN ss |-> ss[pi[i]]]

(***************************************************************************)
(* C10: the bins are strictly ascending by energy (no energy twice), there *)
(* is one bin per distinct energy of the sample set, each bin's count is   *)
(* the sum of num_occurrences of the samples with exactly that energy (so  *)
(* the counts sum to the total occurrence count), and the result does not  *)
(* depend on the order in which the samples are listed.                    *)
(***************************************************************************)
C10_HistogramBins ==
    pc = "histogram_built" =>
        /\ \A p, q \in DOMAIN bins : p < q => bins[p].energy < bins[q].energy
        /\ {bins[p].energy : p \in DOMAIN bins} =
              {sampleset[i].energy : i \in DOMAIN sampleset}
        /\ \A p \in DOMAIN bins :
              bins[p].count =
                  SumFn([i \in {k \in DOMAIN sampleset :
                                    sampleset[k].energy = bins[p].energy}
                            |-> sampleset[i].num_occurrences])
        /\ SumSeq([p \in DOMAIN bins |-> bins[p].count]) =
              SumSeq([i \in DOMAIN sampleset |-> sampleset[i].num_occurrences])
        /\ \A pi \in Permutations(DOMAIN sampleset) :
              build_energy_histogram(Reordered(sampleset, pi)) = bins

\* Two samples of energy 1 around one of energy 0 end as the bins (0, 2), (1, 3).
C10_Witness ==
    /\ pc = "histogram_built"
    /\ sampleset = <<[energy |-> 1, num_occurrences |-> 1],
                     [energy |-> 0, num_occurrences |-> 2],
                     [energy |-> 1, num_occurrences |-> 2]>>
    /\ bins = <<[energy |-> 0, count |-> 2], [energy |-> 1, count |-> 3]>>


(***************************************************************************)
(* main.py: the handlers solve_knapsack and solve_assignment, step by      *)
(* step. The QUBO that the JijModeling builders return and the SampleSet   *)
(* that a solver returns come from libraries: the QUBO is a token, the     *)
(* SampleSet is drawn. Of a SampleSet the handlers read first.sample (held *)
(* in sample) and record.energy / record.num_occurrences (held in          *)
(* sampleset).                                                             *)
(***************************************************************************)
HTTPException(status_code, detail) ==
    [type |-> "HTTPException", status_code |-> status_code, detail |-> detail]

ValueError(message) == [type |-> "ValueError", status_code |-> None, detail |-> message]

\* build_knapsack_qubo_jijmodeling: its two checks.
KnapsackBuilderRaises(ws, vals, cap) == Len(ws) # Len(vals) \/ cap <= 0

KnapsackBuilderError(ws, vals) ==
    IF Len(ws) # Len(vals) THEN ValueError("weights/values length mismatch")
    ELSE ValueError("capacity must be positive")

\* any(len(row) != n_jobs for row in costs)
Ragged(cs) == \E r \in DOMAIN cs : Len(cs[r]) # Len(cs[1])

\* build_assignment_qubo_jijmodeling: its two checks.
AssignmentBuilderRaises(cs) == cs = <<>> \/ Ragged(cs)

AssignmentBuilderError(cs) ==
    IF cs = <<>> THEN ValueError("costs is empty")
    ELSE ValueError("costs is not rectangular")

\* if len(req.weights) != len(req.values): raise HTTPException(400)
KnapsackHandlerRejects(ws, vals) == Len(ws) # Len(vals)

\* if not req.costs or not req.costs[0]: raise HTTPException(400)
AssignmentHandlerRejects(cs) == cs = <<>> \/ cs[1] = <<>>

\* Lists the requests carry: by length, with fixed entries.
RequestWeights == {[i \in 1..k |-> i] : k \in 0..MaxItems}
RequestValues == {[i \in 1..k |-> 1] : k \in 0..MaxItems}

\* Cost matrices the requests carry: empty, with an empty first row, ragged,
\* and rectangular ones by shape.
RequestCosts ==
    {<<>>, <<(<<>>)>>, <<(<<>>), (<<1>>)>>, <<(<<1>>), (<<>>)>>, <<(<<1, 2>>), (<<3>>)>>,
     ExampleCosts}
        \cup UNION {{[w \in 1..nw |-> [j \in 1..nj |-> w + j]] :
                        nj \in 1..(MaxCells \div nw)} : nw \in 1..MaxCells}

SolverNames == {"sa", "sqa", "qa"}

Init ==
    /\ pc = "validate"
    /\ \/ /\ problem = "knapsack"
          /\ weights \in RequestWeights
          /\ values \in RequestValues
          /\ capacity \in (-1)..MaxCapacity
          /\ penalty = RequestPenalty
          /\ costs = None
       \/ /\ problem = "assignment"
          /\ costs \in RequestCosts
          /\ weights = None /\ values = None /\ capacity = None /\ penalty = None
    /\ solver_name \in SolverNames
    /\ credentials \in BOOLEAN
    /\ solver = None /\ solve_calls = 0 /\ response = None /\ error = None
    /\ NoSolverInternals
    /\ Q = None /\ big_capacity = None /\ m_slack = None /\ a = None
    /\ sample = None /\ decoded = None /\ checked = None
    /\ sampleset = None /\ bins = None

\* The handler is left by an exception.
Fail(e) ==
    /\ error' = e
    /\ pc' = "failed"

\* solve_knapsack / solve_assignment: the handler's own check of the request.
Validate ==
    /\ pc = "validate"
    /\ IF \/ problem = "knapsack" /\ KnapsackHandlerRejects(weights, values)
          \/ problem = "assignment" /\ AssignmentHandlerRejects(costs)
       THEN Fail(HTTPException(400, "invalid request"))
       ELSE pc' = "build" /\ UNCHANGED error
    /\ UNCHANGED <<knapsackInputs, Q, slackVars, decodeVars, histVars, problem,
                   solver_name, credentials, solver, solve_calls, response, solverVars>>

\* 1. The builder is called: it raises ValueError or returns the QUBO.
BuildQubo ==
    /\ pc = "build"
    /\ IF problem = "knapsack" /\ KnapsackBuilderRaises(weights, values, capacity)
       THEN Fail(KnapsackBuilderError(weights, values)) /\ UNCHANGED Q
       ELSE IF problem = "assignment" /\ AssignmentBuilderRaises(costs)
       THEN Fail(AssignmentBuilderError(costs)) /\ UNCHANGED Q
       ELSE Q' = "QUBO" /\ pc' = "get_solver" /\ UNCHANGED error
    /\ UNCHANGED <<knapsackInputs, slackVars, decodeVars, histVars, problem,
                   solver_name, credentials, solver, solve_calls, response, solverVars>>

\* 2. get_solver: QASolver() raises RuntimeError without the D-Wave
\* environment variables, which get_solver turns into HTTPException(500).
GetSolver ==
    /\ pc = "get_solver"
    /\ IF solver_name = "qa" /\ ~credentials
       THEN Fail(HTTPException(500, "D-Wave environment variables are not set"))
                /\ UNCHANGED solver
       ELSE /\ solver' = CASE solver_name = "sa" -> "SASolver"
                           [] solver_name = "sqa" -> "SQASolver"
                           [] solver_name = "qa" -> "QASolver"
            /\ pc' = "solve"
            /\ UNCHANGED error
    /\ UNCHANGED <<knapsackInputs, Q, slackVars, decodeVars, histVars, problem,
                   solver_name, credentials, solve_calls, response, solverVars>>

\* Number of variables of the decoded part of a sample.
RequestVars == IF problem = "knapsack" THEN Len(weights) ELSE Len(costs) * Len(costs[1])

\* 3. solver.solve returns a SampleSet.
SolveReturns ==
    /\ pc = "solve"
    /\ solve_calls' = solve_calls + 1
    /\ sample' \in Assignments(RequestVars)
    /\ sampleset' \in
          {ss \in SeqsUpTo([energy : (-MaxEnergy)..MaxEnergy, num_occurrences : {1}],
                           MaxSamples) : ss # <<>>}
    /\ pc' = "postprocess"
    /\ UNCHANGED <<knapsackInputs, Q, slackVars, costs, decoded, checked, bins, problem,
                   solver_name, credentials, solver, response, error, solverVars>>

\* solver.solve is called again after it raised.
SolveRaises_Retry ==
    /\ pc = "solve"
    /\ solver = "QASolver"
    /\ solve_calls <= MaxCalls
    /\ solve_calls' = solve_calls + 1
    /\ UNCHANGED <<pc, knapsackInputs, Q, slackVars, decodeVars, histVars, problem,
                   solver_name, credentials, solver, response, error, solverVars>>

\* 3. QASolver.solve raises ValueError: no embedding found, or the embedding,
\* the embedded model or the unembedded result is not as required.
SolveRaises ==
    /\ pc = "solve"
    /\ solver = "QASolver"
    /\ solve_calls' = solve_calls + 1
    /\ Fail(ValueError("QASolver.solve failed"))
    /\ UNCHANGED <<knapsackInputs, Q, slackVars, decodeVars, histVars, problem,
                   solver_name, credentials, solver, response, solverVars>>

\* The ConstraintCheck list of the knapsack response.
KnapsackConstraints(chk, cap) ==
    <<[name |-> "Weight_constraint", satisfied |-> chk.feasible,
       value |-> chk.total_weight, bound |-> cap]>>

\* The ConstraintCheck list of the assignment response: workers, then jobs.
AssignmentConstraints(chk) ==
    [i \in DOMAIN chk.worker_counts |->
        [name |-> <<"Worker", i - 1>>, satisfied |-> chk.worker_counts[i] = 1,
         value |-> chk.worker_counts[i], bound |-> 1]]
    \o [j \in DOMAIN chk.job_counts |->
        [name |-> <<"Job", j - 1>>, satisfied |-> chk.job_counts[j] = 1,
         value |-> chk.job_counts[j], bound |-> 1]]

\* 4., 5. Decode the best sample, build the histogram, check the constraints
\* and return the response.
PostProcess ==
    /\ pc = "postprocess"
    /\ decoded' = IF problem = "knapsack"
                  THEN decode_knapsack_solution(sample, weights, values)
                  ELSE decode_assignment_solution(sample, costs)
    /\ bins' = build_energy_histogram(sampleset)
    /\ checked' = IF problem = "knapsack"
                  THEN check_knapsack_constraints(sample, weights, capacity)
                  ELSE check_assignment_constraints(sample, costs)
    /\ response' = [decoded |-> decoded',
                    solver |-> solver_name,
                    energy_histogram |-> bins',
                    feasible |-> checked'.feasible,
                    constraints |-> IF problem = "knapsack"
                                    THEN KnapsackConstraints(checked', capacity)
                                    ELSE AssignmentConstraints(checked')]
    /\ pc' = "responded"
    /\ UNCHANGED <<knapsackInputs, Q, slackVars, costs, sample, sampleset, problem,
                   solver_name, credentials, solver, solve_calls, error, solverVars>>

Next == Validate \/ BuildQubo \/ GetSolver \/ SolveReturns \/ SolveRaises \/ PostProcess

Spec == Init /\ [][Next]_vars

\* The request is one the input validation has to reject.
InvalidInput ==
    \/ /\ problem = "knapsack"
       /\ Len(weights) # Len(values) \/ capacity <= 0
    \/ /\ problem = "assignment"
       /\ costs = <<>> \/ \E r \in DOMAIN costs : costs[r] = <<>> \/ Len(costs[r]) # Len(costs[1])

\* The handler was left by the rejection of the request: HTTP 400 with a reason.
RejectedRequest ==
    /\ pc = "failed"
    /\ error.type = "HTTPException"
    /\ error.status_code = 400
    /\ error.detail # ""

(***************************************************************************)
(* C5: a request with invalid input (empty or ragged cost matrix, weights  *)
(* and values of different length, capacity <= 0) fails before any QUBO is *)
(* built and before a solver is created or called, and it ends as a        *)
(* rejected request: HTTP 400 with a descriptive reason.                   *)
(***************************************************************************)
C5_InvalidInputIsRejected ==
    InvalidInput =>
        /\ Q = None /\ solver = None /\ solve_calls = 0 /\ response = None
        /\ pc \in {"validate", "build", "failed"}
        /\ pc = "failed" => RejectedRequest

\* What the code does hold to: an invalid request never reaches a QUBO, a
\* solver or a response, and ends failed with HTTP 400 or a ValueError.
C5_InvalidInputFailsFast ==
    InvalidInput =>
        /\ Q = None /\ solver = None /\ solve_calls = 0 /\ response = None
        /\ pc \in {"validate", "build", "failed"}
        /\ pc = "failed" => (RejectedRequest \/ error.type = "ValueError")


(***************************************************************************)
(* solver.py: one solver instance and a sequence of solve calls on it.     *)
(* The samplers, minorminer and dwave.embedding are libraries: what they   *)
(* return is drawn, with the arguments they were called with recorded.     *)
(***************************************************************************)
\* self.sample_config = {"num_reads": 10}
DefaultNumReads == 10
DefaultSampleConfig == [num_reads |-> DefaultNumReads]

\* The sample_config argument: None, or a mapping.
NoneConfig == [is_none |-> TRUE, items |-> <<>>]
GivenConfig(d) == [is_none |-> FALSE, items |-> d]

\* {**defaults, **given}: the keys of both, the value of given where it has one.
DictMerge(defaults, given) ==
    [k \in DOMAIN defaults \cup DOMAIN given |->
        IF k \in DOMAIN given THEN given[k] ELSE defaults[k]]

\* The merge with the defaults winning.
merge_config_DefaultsWin(self_cfg, sc) ==
    IF sc.is_none THEN self_cfg ELSE DictMerge(sc.items, self_cfg)

\* SolverBase._merge_config: a new dict in both branches.
merge_config(self_cfg, sc) ==
    IF sc.is_none THEN self_cfg ELSE DictMerge(self_cfg, sc.items)

ConfigKeys == {"num_reads", "num_sweeps"}
ConfigValues == 1..MaxConfigValue \cup {DefaultNumReads}

\* The sample_config arguments callers pass.
SampleConfigs ==
    {NoneConfig} \cup {GivenConfig(d) : d \in UNION {[K -> ConfigValues] : K \in SUBSET ConfigKeys}}

\* The QUBOs callers pass: over no, one and two variables.
SolverQubos ==
    {EmptyDict} \cup {[k \in {<<0, 0>>} |-> c] : c \in {-1, 1}}
        \cup {[k \in {<<0, 0>>, <<0, 1>>, <<1, 1>>} |-> IF k[1] = k[2] THEN -1 ELSE c] :
                 c \in {1, 2}}

\* BinaryQuadraticModel.from_qubo(Q): the variables and the quadratic keys of Q.
BqmFromQubo(Qd) ==
    [variables |-> {k[1] : k \in DOMAIN Qd} \cup {k[2] : k \in DOMAIN Qd},
     quadratic |-> {k \in DOMAIN Qd : k[1] # k[2]}]

\* The SampleSets a sampler returns.
SolverSampleSets == {<<r>> : r \in SampleRecords}

InitSolver ==
    /\ pc = "idle"
    /\ problem = None /\ solver_name = None /\ credentials = None
    /\ solve_calls = 0 /\ response = None /\ error = None
    /\ \/ solver = "SASolver" /\ use_greedy = FALSE
       \/ solver \in {"SQASolver", "QASolver"} /\ use_greedy \in BOOLEAN
    /\ self_sample_config = DefaultSampleConfig
    /\ sample_config = None /\ cfg = None /\ bqm = None /\ embedding = None
    /\ embedded_bqm = None /\ sampler_calls = None
    /\ weights = None /\ values = None /\ capacity = None /\ penalty = None
    /\ Q = None /\ big_capacity = None /\ m_slack = None /\ a = None
    /\ costs = None /\ sample = None /\ decoded = None /\ checked = None
    /\ sampleset = None /\ bins = None

\* What a call leaves alone whatever its stage.
SolverFrame ==
    UNCHANGED <<knapsackInputs, slackVars, decodeVars, bins, problem, solver_name,
                credentials, solver, response, self_sample_config, use_greedy>>

\* The caller calls solver.solve(Q, sample_config).
CallSolve ==
    /\ pc \in {"idle", "raised"}
    /\ solve_calls < MaxCalls
    /\ solve_calls' = solve_calls + 1
    /\ Q' \in SolverQubos
    /\ sample_config' \in SampleConfigs
    /\ cfg' = None /\ bqm' = None /\ embedding' = EmptyDict /\ embedded_bqm' = None
    /\ sampler_calls' = <<>> /\ sampleset' = None /\ error' = None
    /\ pc' = "merge"
    /\ SolverFrame

\* cfg = self._merge_config(sample_config)
MergeConfig ==
    /\ pc = "merge"
    /\ cfg' = merge_config(self_sample_config, sample_config)
    /\ pc' = IF solver = "QASolver" THEN "convert" ELSE "sample"
    /\ UNCHANGED <<Q, sample_config, bqm, embedding, embedded_bqm, sampler_calls,
                   sampleset, error, solve_calls>>
    /\ SolverFrame

\* After the sampling: the optional greedy improvement, or the return.
AfterSampling == IF use_greedy THEN "greedy" ELSE "idle"

\* SASolver / SQASolver: sampler.sample_qubo(Q, **cfg)
SampleQubo ==
    /\ pc = "sample"
    /\ sampler_calls' = Append(sampler_calls, cfg)
    /\ sampleset' \in SolverSampleSets
    /\ pc' = AfterSampling
    /\ UNCHANGED <<Q, sample_config, cfg, bqm, embedding, embedded_bqm, error, solve_calls>>
    /\ SolverFrame

\* SteepestDescentSampler().sample(bqm, initial_states=sampleset)
Greedy ==
    /\ pc = "greedy"
    /\ sampleset' \in SolverSampleSets
    /\ pc' = "idle"
    /\ UNCHANGED <<Q, sample_config, cfg, bqm, embedding, embedded_bqm, sampler_calls,
                   error, solve_calls>>
    /\ SolverFrame

\* QASolver: bqm = self._convert_bqm_from_qubo(Q)
ConvertBqm ==
    /\ pc = "convert"
    /\ bqm' = BqmFromQubo(Q)
    /\ pc' = "find_embedding"
    /\ UNCHANGED <<Q, sample_config, cfg, embedding, embedded_bqm, sampler_calls,
                   sampleset, error, solve_calls>>
    /\ SolverFrame

\* The call is left by an exception.
Raise(e) ==
    /\ error' = e
    /\ pc' = "raised"

\* The two checks of _find_embedding without the second.
EmbeddingError_NoCoverCheck(emb, logical_vars) ==
    IF DOMAIN emb = {} THEN "No embedding found." ELSE ""

\* The two checks of _find_embedding: the message of the error, "" for none.
EmbeddingError(emb, logical_vars) ==
    IF DOMAIN emb = {} THEN "No embedding found."
    ELSE IF DOMAIN emb # logical_vars
    THEN "Embedding does not cover all logical variables."
    ELSE ""

\* What find_embedding may return for logical variables V: chains for any
\* subset of them.
Embeddings(V) == UNION {[K -> {"chain"}] : K \in SUBSET V}

\* QASolver: embedding = self._find_embedding(bqm)
FindEmbedding ==
    /\ pc = "find_embedding"
    /\ \E emb \in Embeddings(bqm.variables) :
          IF EmbeddingError(emb, bqm.variables) # ""
          THEN Raise(ValueError(EmbeddingError(emb, bqm.variables))) /\ UNCHANGED embedding
          ELSE embedding' = emb /\ pc' = "embed_bqm" /\ UNCHANGED error
    /\ UNCHANGED <<Q, sample_config, cfg, bqm, embedded_bqm, sampler_calls, sampleset,
                   solve_calls>>
    /\ SolverFrame

\* QASolver: embedded_bqm = self._embed_bqm(bqm, embedding)
EmbedBqm ==
    /\ pc = "embed_bqm"
    /\ \E is_bqm \in BOOLEAN :
          IF ~is_bqm
          THEN Raise(ValueError("Embedding failed, resulting object is not a BinaryQuadraticModel."))
                  /\ UNCHANGED embedded_bqm
          ELSE embedded_bqm' = "BinaryQuadraticModel" /\ pc' = "hardware_sample"
                  /\ UNCHANGED error
    /\ UNCHANGED <<Q, sample_config, cfg, bqm, embedding, sampler_calls, sampleset,
                   solve_calls>>
    /\ SolverFrame

\* QASolver: response = self.sampler.sample(embedded_bqm, **cfg)
HardwareSample ==
    /\ pc = "hardware_sample"
    /\ sampler_calls' = Append(sampler_calls, cfg)
    /\ pc' = "unembed"
    /\ UNCHANGED <<Q, sample_config, cfg, bqm, embedding, embedded_bqm, sampleset, error,
                   solve_calls>>
    /\ SolverFrame

\* QASolver: sampleset = unembed_sampleset(...), then the isinstance check.
Unembed ==
    /\ pc = "unembed"
    /\ \E is_sampleset \in BOOLEAN :
          IF ~is_sampleset
          THEN Raise(ValueError("Unembedding failed, resulting object is not a SampleSet."))
                  /\ UNCHANGED sampleset
          ELSE sampleset' \in SolverSampleSets /\ pc' = AfterSampling /\ UNCHANGED error
    /\ UNCHANGED <<Q, sample_config, cfg, bqm, embedding, embedded_bqm, sampler_calls,
                   solve_calls>>
    /\ SolverFrame

NextSolver ==
    \/ CallSolve \/ MergeConfig \/ SampleQubo \/ Greedy
    \/ ConvertBqm \/ FindEmbedding \/ EmbedBqm \/ HardwareSample \/ Unembed

SpecSolver == InitSolver /\ [][NextSolver]_vars


\* A call has merged its configuration: cfg holds it.
Merged == solve_calls > 0 /\ pc # "merge"

\* The call has invoked its sampler and was not left by an exception.
SamplerInvoked == solve_calls > 0 /\ pc \in {"unembed", "greedy", "idle"}

\* cfg is the defaults overridden by the explicit keys of this call.
CfgIsDefaultsOverridden ==
    LET given == IF sample_config.is_none THEN {} ELSE DOMAIN sample_config.items
    IN  /\ DOMAIN cfg = {"num_reads"} \cup given
        /\ \A k \in DOMAIN cfg :
              cfg[k] = IF k \in given THEN sample_config.items[k] ELSE DefaultNumReads

\* A step inside a call changes neither the caller's mapping nor the QUBO.
CallKeepsArguments ==
    pc \notin {"idle", "raised"} => (Q' = Q /\ sample_config' = sample_config)

(***************************************************************************)
(* C11: in every sequence of solve calls on one solver instance, the       *)
(* configuration a call uses is the defaults ({"num_reads": 10})           *)
(* overridden by the explicit keys of that call only, the sampler is       *)
(* called with exactly that configuration, and no step changes the         *)
(* instance's default sample_config, the caller's mapping or the QUBO.     *)
(***************************************************************************)
C11_ConfigMergedPerCall ==
    /\ [](/\ self_sample_config = DefaultSampleConfig
          /\ Merged => CfgIsDefaultsOverridden
          /\ SamplerInvoked => sampler_calls = <<cfg>>)
    /\ [][self_sample_config' = self_sample_config /\ CallKeepsArguments]_vars

\* The second call on the instance passes only num_sweeps (the first call
\* passed some configuration of its own) and samples with num_reads = 10.
C11_Witness ==
    /\ solve_calls = 2
    /\ pc = "idle"
    /\ ~sample_config.is_none
    /\ DOMAIN sample_config.items = {"num_sweeps"}
    /\ sample_config.items["num_sweeps"] = 2
    /\ Len(sampler_calls) = 1
    /\ DOMAIN sampler_calls[1] = {"num_reads", "num_sweeps"}
    /\ sampler_calls[1]["num_reads"] = DefaultNumReads
    /\ sampler_calls[1]["num_sweeps"] = 2


\* The stage an error of QASolver.solve names.
StageOfError(detail) ==
    CASE detail = "No embedding found." -> "embedding"
      [] detail = "Embedding does not cover all logical variables." -> "embedding"
      [] detail = "Embedding failed, resulting object is not a BinaryQuadraticModel."
            -> "embedding"
      [] detail = "Unembedding failed, resulting object is not a SampleSet." -> "unembedding"
      [] OTHER -> "unknown"

\* The steps of QASolver.solve in their order; from "raised" and "idle" only
\* a new call goes on.
QAStageOrder ==
    {<<"idle", "merge">>, <<"raised", "merge">>, <<"merge", "convert">>,
     <<"convert", "find_embedding">>, <<"find_embedding", "embed_bqm">>,
     <<"find_embedding", "raised">>, <<"embed_bqm", "hardware_sample">>,
     <<"embed_bqm", "raised">>, <<"hardware_sample", "unembed">>,
     <<"unembed", "raised">>, <<"unembed", "greedy">>, <<"unembed", "idle">>,
     <<"greedy", "idle">>}

\* The hardware sampler has been invoked only on an embedding that is
\* non-empty and covers exactly the logical variables.
SampledOnlyWhenEmbedded ==
    Len(sampler_calls) > 0 =>
        /\ DOMAIN embedding # {}
        /\ DOMAIN embedding = bqm.variables
        /\ embedded_bqm = "BinaryQuadraticModel"

\* A failed call ends with one error that names its stage, and returns nothing.
FailureNamesStage ==
    pc = "raised" =>
        /\ sampleset = None
        /\ error.type = "ValueError"
        /\ StageOfError(error.detail) \in {"embedding", "unembedding"}
        /\ StageOfError(error.detail) = "embedding" <=> Len(sampler_calls) = 0

(***************************************************************************)
(* C12: QASolver.solve runs embedding, sampling, unembedding in this       *)
(* order; the hardware sampler is invoked only after an embedding was      *)
(* found that is non-empty and covers exactly the logical variables; a     *)
(* failure of a stage ends the call with one terminal error that names the *)
(* stage, never with a SampleSet returned; a returned SampleSet is not     *)
(* empty.                                                                  *)
(***************************************************************************)
C12_QAStagesInOrder ==
    /\ [](solver = "QASolver" =>
            /\ solve_calls > 0 => SampledOnlyWhenEmbedded
            /\ FailureNamesStage
            /\ (pc = "idle" /\ solve_calls > 0) => Len(sampleset) > 0)
    /\ [][solver = "QASolver" =>
            /\ <<pc, pc'>> \in QAStageOrder
            /\ pc \in {"idle", "raised"} => solve_calls' = solve_calls + 1]_vars

\* A call on two logical variables was left at the embedding stage, by an
\* embedding that does not cover them, before the sampler was invoked.
C12_Witness ==
    /\ solver = "QASolver"
    /\ pc = "raised"
    /\ bqm.variables = {0, 1}
    /\ error.detail = "Embedding does not cover all logical variables."
    /\ Len(sampler_calls) = 0


\* The steps of a handler in their order; nothing follows a failure or the
\* response.
HandlerStepOrder ==
    {<<"validate", "build">>, <<"build", "get_solver">>, <<"get_solver", "solve">>,
     <<"solve", "postprocess">>, <<"postprocess", "responded">>,
     <<"validate", "failed">>, <<"build", "failed">>, <<"get_solver", "failed">>,
     <<"solve", "failed">>}

\* What each step has done and not yet done when the handler stands at pc.
StepsDoneInOrder ==
    /\ pc \in {"validate", "build"} => (Q = None /\ solver = None /\ solve_calls = 0)
    /\ pc \in {"get_solver", "solve", "postprocess", "responded"} => Q = "QUBO"
    /\ pc = "get_solver" => (solver = None /\ solve_calls = 0)
    /\ pc = "solve" => solve_calls = 0
    /\ solver # None => Q = "QUBO"
    /\ solve_calls > 0 => solver # None
    /\ pc \in {"postprocess", "responded"} => solve_calls = 1
    /\ pc # "responded" => response = None

\* A failure of the solver's creation or of solve: one error, no response.
SolverFailurePropagates ==
    /\ pc \in {"solve", "postprocess", "responded"} =>
          /\ solver_name = "qa" => credentials
          /\ solver = CASE solver_name = "sa" -> "SASolver"
                        [] solver_name = "sqa" -> "SQASolver"
                        [] solver_name = "qa" -> "QASolver"
    /\ (pc = "failed" /\ Q = "QUBO") =>
          /\ response = None /\ decoded = None /\ checked = None /\ bins = None
          /\ IF solver = None
             THEN /\ solver_name = "qa" /\ ~credentials
                  /\ error.type = "HTTPException" /\ error.status_code = 500
                  /\ solve_calls = 0
             ELSE /\ solve_calls = 1
                  /\ error.type = "ValueError"

(***************************************************************************)
(* C13: a handler runs validate, build QUBO, select solver, solve,         *)
(* decode/check/histogram in this order; solver.solve is called at most    *)
(* once, on the one solver get_solver returned; a failure of the solver's  *)
(* creation or of solve leaves the handler with one terminal error and no  *)
(* response or decoded result.                                             *)
(***************************************************************************)
C13_HandlerStepsInOrder ==
    /\ [](/\ solve_calls <= 1
          /\ StepsDoneInOrder
          /\ SolverFailurePropagates)
    /\ [][/\ <<pc, pc'>> \in HandlerStepOrder
          /\ solver # None => solver' = solver]_vars

\* solve of the QASolver raised: one call, no retry, no response.
C13_Witness ==
    /\ pc = "failed"
    /\ solver = "QASolver"
    /\ solve_calls = 1
    /\ error.type = "ValueError"
    /\ response = None


\* The decoded pairs match every worker to one job and every job to one worker.
OneToOneMatching(pairs, n_workers, n_jobs) ==
    /\ Len(pairs) = n_workers
    /\ \A i \in 0..(n_workers - 1) :
          Cardinality({p \in DOMAIN pairs : pairs[p][1] = i}) = 1
    /\ \A j \in 0..(n_jobs - 1) :
          Cardinality({p \in DOMAIN pairs : pairs[p][2] = j}) = 1

(***************************************************************************)
(* C14: when check_assignment_constraints reports feasible, the cost       *)
(* matrix is square and the pairs decode_assignment_solution returns for   *)
(* the same sample are a one-to-one matching of all workers onto all jobs; *)
(* for a non-square matrix no sample is reported feasible; the response's  *)
(* feasible flag is true exactly when every listed constraint check is     *)
(* satisfied.                                                              *)
(***************************************************************************)
C14_FeasibleIsOneToOne ==
    (pc = "responded" /\ problem = "assignment") =>
        LET n_workers == Len(costs)
            n_jobs == Len(costs[1])
        IN  /\ checked.feasible =>
                  /\ n_workers = n_jobs
                  /\ OneToOneMatching(decoded.assignments, n_workers, n_jobs)
            /\ n_workers # n_jobs => ~checked.feasible
            /\ response.feasible = checked.feasible
            /\ Len(response.constraints) = n_workers + n_jobs
            /\ response.feasible <=>
                  \A c \in DOMAIN response.constraints : response.constraints[c].satisfied

\* The example matrix answered with worker 0 -> job 1, worker 1 -> job 0.
C14_Witness ==
    /\ pc = "responded"
    /\ problem = "assignment"
    /\ costs = ExampleCosts
    /\ response.feasible
    /\ decoded.assignments = <<(<<0, 1>>), (<<1, 0>>)>>


=============================================================================
